---------------------------- MODULE Spec2Model ----------------------------
(***************************************************************************)
(* A model of audio_visualization.py: the spectral binner (wav_to_bins,   *)
(* get_bin_average, normalization_and_zooming), the emphasis detector      *)
(* (find_points), the balance function (ratio), the circle renderer        *)
(* (circle_mode), the muxer (add_audio) and the command-line entry point.  *)
(*                                                                         *)
(* Numbers.  A float is a pair <<n, d>>: the rational n/d in lowest terms  *)
(* with d > 0, or NaN, written <<0, 0>>.  Arithmetic is exact; NaN         *)
(* propagates through arithmetic and makes every comparison false, as in   *)
(* IEEE 754.  An array of shape (rows, columns) is a sequence of rows,     *)
(* each a sequence of floats: array[j][i] is the source's array[j-1, i-1]. *)
(***************************************************************************)
EXTENDS Integers, Sequences, FiniteSets

VARIABLES
    pc,              \* where the program is
    error,           \* the exception that ended the run, "none" otherwise
    bins,            \* normalization_and_zooming: its argument
    normed,          \* normalization_and_zooming: its return value
    threshold,       \* find_points: argument
    horizon,         \* find_points: argument
    keep,            \* find_points: its return value
    a,               \* ratio: argument
    b,               \* ratio: argument
    r,               \* ratio: its return value
    wav,             \* the WAV file: channel count and each channel's STFT
    mono,            \* wav_to_bins: argument
    bin_boundaries,  \* wav_to_bins: argument
    ret,             \* wav_to_bins: its return value
    g_bins0,         \* the module-level name bins0 (Undefined when unbound)
    g_bins1,         \* the module-level name bins1
    c_bins0,         \* circle_mode: argument bins0
    c_bins1,         \* circle_mode: argument bins1 (None in mono mode)
    color_changing,  \* circle_mode: argument
    points,          \* circle_mode: local
    color,           \* circle_mode: local
    i,               \* circle_mode: the frame loop's index
    frames,          \* circle_mode: the frames snapped by the camera
    saved,           \* circle_mode: number of frames written to the video
    argv,            \* sys.argv
    stages           \* the pipeline stages entered so far, in order

vars == <<pc, error, bins, normed, threshold, horizon, keep, a, b, r, wav,
          mono, bin_boundaries, ret, g_bins0, g_bins1, c_bins0, c_bins1,
          color_changing, points, color, i, frames, saved, argv, stages>>

-----------------------------------------------------------------------------
(* Floats *)

RECURSIVE Gcd(_, _)
Gcd(x, y) == IF y = 0 THEN x ELSE Gcd(y, x % y)

Abs(x) == IF x < 0 THEN -x ELSE x

NaN == <<0, 0>>

IsNaN(x) == x[2] = 0

\* n/d in lowest terms, d # 0
Rat(n, d) ==
    LET g == Gcd(Abs(n), Abs(d))
        s == IF d < 0 THEN -1 ELSE 1
    IN  <<s * (n \div g), s * (d \div g)>>

Zero == <<0, 1>>
One == <<1, 1>>
Quarter == <<1, 4>>

FAdd(x, y) == IF IsNaN(x) \/ IsNaN(y) THEN NaN
              ELSE Rat(x[1] * y[2] + y[1] * x[2], x[2] * y[2])

FSub(x, y) == IF IsNaN(x) \/ IsNaN(y) THEN NaN
              ELSE Rat(x[1] * y[2] - y[1] * x[2], x[2] * y[2])

FMul(x, y) == IF IsNaN(x) \/ IsNaN(y) THEN NaN
              ELSE Rat(x[1] * y[1], x[2] * y[2])

\* numpy float division: 0/0 is NaN (a warning, not an exception).  A nonzero
\* numerator over zero (inf) does not arise: every divisor below is the
\* maximum of non-negative dividends, or a sum of non-negative terms.
FDiv(x, y) == IF IsNaN(x) \/ IsNaN(y) \/ y[1] = 0 THEN NaN
              ELSE Rat(x[1] * y[2], x[2] * y[1])

FEq(x, y) == ~IsNaN(x) /\ ~IsNaN(y) /\ x = y
FLt(x, y) == ~IsNaN(x) /\ ~IsNaN(y) /\ x[1] * y[2] < y[1] * x[2]
FGeq(x, y) == ~IsNaN(x) /\ ~IsNaN(y) /\ x[1] * y[2] >= y[1] * x[2]

FAbs(x) == <<Abs(x[1]), x[2]>>

\* round(1000 * ln k) for k = 1..12
LnTable == <<0, 693, 1099, 1386, 1609, 1792, 1946, 2079, 2197, 2303, 2398, 2485>>

\* np.log of a positive float p/q: ln p - ln q, in thousandths
Log(x) == IF IsNaN(x) THEN NaN ELSE Rat(LnTable[x[1]] - LnTable[x[2]], 1000)

-----------------------------------------------------------------------------
(* numpy arrays *)

Rows(arr) == Len(arr)
Cols(arr) == Len(arr[1])

Flat(arr) == {arr[j][k] : j \in 1..Rows(arr), k \in 1..Cols(arr)}

SetMin(S) == CHOOSE x \in S : \A y \in S : FGeq(y, x)
SetMax(S) == CHOOSE x \in S : \A y \in S : FGeq(x, y)

\* np.amin, np.amax: NaN as soon as one entry is NaN
Amin(arr) == IF NaN \in Flat(arr) THEN NaN ELSE SetMin(Flat(arr))

Amax(arr) == IF NaN \in Flat(arr) THEN NaN ELSE SetMax(Flat(arr))

RECURSIVE FSum(_)
FSum(s) == IF s = <<>> THEN Zero ELSE FAdd(Head(s), FSum(Tail(s)))

\* np.average of a 1-D slice: NaN for an empty slice
Average(s) == IF s = <<>> THEN NaN ELSE FDiv(FSum(s), <<Len(s), 1>>)

-----------------------------------------------------------------------------
(* normalization_and_zooming *)

\* bins[bins == 0] = 1
ZerosToOne(arr) ==
    [j \in 1..Rows(arr) |-> [k \in 1..Cols(arr) |->
        IF FEq(arr[j][k], Zero) THEN One ELSE arr[j][k]]]

\* bins = np.log(bins)
LogAll(arr) == [j \in 1..Rows(arr) |-> [k \in 1..Cols(arr) |-> Log(arr[j][k])]]

\* bins[bins == 0] = x
ZerosTo(arr, x) ==
    [j \in 1..Rows(arr) |-> [k \in 1..Cols(arr) |->
        IF FEq(arr[j][k], Zero) THEN x ELSE arr[j][k]]]

\* bins[bins == 0] = np.amin(bins)
ZerosToMin(arr) == ZerosTo(arr, Amin(arr))

\* bins = bins - x
SubAll(arr, x) == [j \in 1..Rows(arr) |-> [k \in 1..Cols(arr) |-> FSub(arr[j][k], x)]]

\* bins = bins / x
DivAll(arr, x) == [j \in 1..Rows(arr) |-> [k \in 1..Cols(arr) |-> FDiv(arr[j][k], x)]]

\* bins = bins - np.amin(bins)
ShiftMin(arr) == SubAll(arr, Amin(arr))

\* bins = bins / np.amax(bins)
ScaleMax(arr) == DivAll(arr, Amax(arr))

\* bins[bins < 0.25] = 0.25
ClipLow(arr) ==
    [j \in 1..Rows(arr) |-> [k \in 1..Cols(arr) |->
        IF FLt(arr[j][k], Quarter) THEN Quarter ELSE arr[j][k]]]

normalization_and_zooming(arr) ==
    ScaleMax(SubAll(ClipLow(ScaleMax(ShiftMin(ZerosToMin(LogAll(ZerosToOne(arr)))))), Quarter))

-----------------------------------------------------------------------------
(* Each function's variables, and their values in a specification that  *)
(* does not call it                                                     *)

Undefined == <<>>
None == <<>>

normVars == <<bins, normed>>
findVars == <<threshold, horizon, keep>>
ratioVars == <<a, b, r>>
wavVars == <<wav, mono, bin_boundaries, ret>>
circleVars == <<c_bins0, c_bins1, color_changing, points, color, i, frames, saved>>
mainVars == <<g_bins1, argv, stages>>

IdleNorm == bins = <<>> /\ normed = <<>>
IdleFind == threshold = Zero /\ horizon = 0 /\ keep = <<>>
IdleRatio == a = Zero /\ b = Zero /\ r = Zero
IdleWav == wav = <<>> /\ mono = 0 /\ bin_boundaries = <<>> /\ ret = <<>>
IdleCircle == /\ c_bins0 = <<>> /\ c_bins1 = None /\ color_changing = 0
              /\ points = <<>> /\ color = <<>> /\ i = 0 /\ frames = <<>> /\ saved = 0
IdleMain == g_bins1 = Undefined /\ argv = <<>> /\ stages = <<>>

-----------------------------------------------------------------------------
(* Arrays of a given shape over a set of values *)

Arrays(rows, cols, vals) == [1..rows -> [1..cols -> vals]]

-----------------------------------------------------------------------------
(* normalization_and_zooming applied to every small array of magnitudes *)

MaxNormCols == 2

Magnitudes == {Zero, <<1, 2>>, One, <<2, 1>>}

InitNorm ==
    /\ pc = "normalization_and_zooming"
    /\ error = "none"
    /\ \E rows \in 1..2, cols \in 1..MaxNormCols : bins \in Arrays(rows, cols, Magnitudes)
    /\ normed = <<>>
    /\ g_bins0 = Undefined
    /\ IdleFind /\ IdleRatio /\ IdleWav /\ IdleCircle /\ IdleMain

CallNormalization ==
    /\ pc = "normalization_and_zooming"
    /\ normed' = normalization_and_zooming(bins)
    /\ pc' = "done"
    /\ UNCHANGED <<error, bins, g_bins0, findVars, ratioVars, wavVars, circleVars, mainVars>>

SpecNorm == InitNorm /\ [][CallNormalization]_vars

\* C1: for every non-empty array of non-negative magnitudes, the result of
\* normalization_and_zooming has minimum exactly 0 and maximum exactly 1 and
\* every entry is defined (no NaN from a division by zero).
C1_MinZeroMaxOne ==
    pc = "done" =>
        /\ \A x \in Flat(normed) : ~IsNaN(x)
        /\ Amin(normed) = Zero
        /\ Amax(normed) = One

-----------------------------------------------------------------------------
(* find_points *)

Max(x, y) == IF x >= y THEN x ELSE y
Min(x, y) == IF x <= y THEN x ELSE y

\* python's s[lo:hi] for 0 <= lo, 0 <= hi: clipped to the sequence
Slice(s, lo, hi) == SubSeq(s, lo + 1, Min(hi, Len(s)))

\* np.average(bins0, axis=0): one value per frame, the mean over the bands
ColumnAverage(arr) ==
    [k \in 1..Cols(arr) |-> Average([j \in 1..Rows(arr) |-> arr[j][k]])]

\* the loop of lines 111-114: the neighbours that are >= x
RECURSIVE NumGeq(_, _)
NumGeq(neighbors, x) ==
    IF neighbors = <<>> THEN 0
    ELSE (IF FGeq(Head(neighbors), x) THEN 1 ELSE 0) + NumGeq(Tail(neighbors), x)

\* the fraction with the frame itself counted on both sides (a variant of line 115)
ResultCountsSelf(num_geq, size) == Rat(num_geq, size)

\* line 115, for a window of more than one frame
Result(num_geq, size) == Rat(num_geq - 1, size - 1)

\* the loop of lines 109-117 from frame idx on; frames are numbered from 0
RECURSIVE FindLoop(_, _, _, _, _)
FindLoop(test1, thr, hor, idx, kept) ==
    IF idx = Len(test1) THEN [error |-> "none", keep |-> kept]
    ELSE LET neighbors == Slice(test1, Max(0, idx - hor), Min(Len(test1), idx + hor + 1))
             num_geq == NumGeq(neighbors, test1[idx + 1])
         IN  IF Len(neighbors) - 1 = 0
             THEN [error |-> "ZeroDivisionError", keep |-> <<>>]
             ELSE FindLoop(test1, thr, hor, idx + 1,
                           IF FGeq(Result(num_geq, Len(neighbors)), thr)
                           THEN Append(kept, idx) ELSE kept)

\* find_points reads the module-level bins0, passed here as glob
find_points(thr, hor, glob) ==
    IF glob = Undefined THEN [error |-> "NameError", keep |-> <<>>]
    ELSE FindLoop(ColumnAverage(glob), thr, hor, 0, <<>>)

-----------------------------------------------------------------------------
(* find_points applied to every small bins0, threshold and horizon *)

MaxFindFrames == 3
MaxHorizon == 2

Thresholds == {Zero, <<1, 2>>, <<9, 10>>, One}

BandCounts == {1, 2}

\* a bins array out of normalization_and_zooming has no NaN or is all NaN
FindArrays ==
    UNION {Arrays(rows, cols, {Zero, One}) \cup Arrays(rows, cols, {NaN}) :
           rows \in BandCounts, cols \in 1..MaxFindFrames}

InitFind ==
    /\ pc = "find_points"
    /\ error = "none"
    /\ g_bins0 \in FindArrays
    /\ threshold \in Thresholds
    /\ horizon \in 0..MaxHorizon
    /\ keep = <<>>
    /\ IdleNorm /\ IdleRatio /\ IdleWav /\ IdleCircle /\ IdleMain

CallFindPoints ==
    /\ pc = "find_points"
    /\ LET res == find_points(threshold, horizon, g_bins0)
       IN  /\ error' = res.error
           /\ keep' = res.keep
           /\ pc' = IF res.error = "none" THEN "done" ELSE "raised"
    /\ UNCHANGED <<threshold, horizon, g_bins0, normVars, ratioVars, wavVars,
                   circleVars, mainVars>>

SpecFind == InitFind /\ [][CallFindPoints]_vars

\* the energy curve find_points works on
test1 == ColumnAverage(g_bins0)

StrictlyIncreasing(s) == \A k \in 1..(Len(s) - 1) : FLt(s[k], s[k + 1])

InSeq(x, s) == \E k \in 1..Len(s) : s[k] = x

\* C2: for a strictly increasing curve of length >= 2, horizon >= 1 and
\* threshold <= 1, find_points returns a list that holds the last index.
C2_LastIndexFlagged ==
    (/\ pc \in {"done", "raised"}
     /\ Len(test1) >= 2 /\ StrictlyIncreasing(test1)
     /\ horizon >= 1 /\ FGeq(One, threshold))
        => (error = "none" /\ InSeq(Len(test1) - 1, keep))

\* the frames of the window of frame idx (numbered from 0), clipped to the curve
Window(idx) == {k \in 0..(Len(test1) - 1) : idx - horizon <= k /\ k <= idx + horizon}

GeqInWindow(idx) == {k \in Window(idx) : FGeq(test1[k + 1], test1[idx + 1])}

Elems(s) == {s[k] : k \in 1..Len(s)}

\* C3 as stated: frame i is flagged exactly when the number of frames of its
\* window (i included) with a value >= the value at i, divided by the number of
\* frames of the window (i included), is >= threshold.
C3_FractionCountsSelf ==
    pc = "done" =>
        Elems(keep) = {idx \in 0..(Len(test1) - 1) :
              FGeq(Rat(Cardinality(GeqInWindow(idx)), Cardinality(Window(idx))), threshold)}

\* C3 amended: with c the number of frames of the window of i (i included)
\* whose value is >= the value at i and w the window's size, frame i is flagged
\* exactly when (c - 1) / (w - 1) >= threshold, and the output lists exactly
\* those frames in increasing order; when a window holds frame i alone (a curve
\* of one frame, or horizon 0) the call raises ZeroDivisionError instead.
C3_FractionExcludesSelf ==
    pc \in {"done", "raised"} =>
        IF \E idx \in 0..(Len(test1) - 1) : Cardinality(Window(idx)) = 1
        THEN pc = "raised" /\ error = "ZeroDivisionError"
        ELSE /\ pc = "done" /\ error = "none"
             /\ Elems(keep) = {idx \in 0..(Len(test1) - 1) :
                   FGeq(Rat(Cardinality(GeqInWindow(idx)) - 1,
                            Cardinality(Window(idx)) - 1), threshold)}
             /\ \A k \in 1..(Len(keep) - 1) : keep[k] < keep[k + 1]

\* a returned list in which a frame with a neighbour strictly above it and one
\* strictly below it in its window was decided
C3_Witness ==
    /\ pc = "done" /\ horizon = 1 /\ Len(test1) = 3
    /\ FLt(test1[1], test1[2]) /\ FLt(test1[2], test1[3])
    /\ threshold = <<1, 2>>
    /\ keep = <<0, 1>>

\* C4: with horizon >= the length of the curve, find_points ends in ValueError
\* and returns nothing.
C4_ValueErrorOnLargeHorizon ==
    (pc \in {"done", "raised"} /\ horizon >= Len(test1))
        => (pc = "raised" /\ error = "ValueError")

-----------------------------------------------------------------------------
(* ratio *)

ratio(x, y) == FDiv(y, FAdd(x, y))

MaxDen == 5

\* the normalized bin values k/m of [0, 1] with m <= MaxDen
UnitValues == {Rat(k, m) : k \in 0..MaxDen, m \in 1..MaxDen} \cap
              {<<n, d>> : n \in 0..MaxDen, d \in 1..MaxDen}

InitRatio ==
    /\ pc = "ratio"
    /\ error = "none"
    /\ a \in {x \in UnitValues : FGeq(One, x)}
    /\ b \in {x \in UnitValues : FGeq(One, x)}
    /\ r = Zero
    /\ g_bins0 = Undefined
    /\ IdleNorm /\ IdleFind /\ IdleWav /\ IdleCircle /\ IdleMain

CallRatio ==
    /\ pc = "ratio"
    /\ r' = ratio(a, b)
    /\ pc' = "done"
    /\ UNCHANGED <<error, a, b, g_bins0, normVars, findVars, wavVars, circleVars, mainVars>>

SpecRatio == InitRatio /\ [][CallRatio]_vars

\* C6: ratio(a, b) + ratio(b, a) = 1 for positive a and b, and ratio(a, 0) = 0
\* for every normalized bin value a of [0, 1], a = 0 included.
C6_RatioBalance ==
    pc = "done" =>
        /\ (FLt(Zero, a) /\ FLt(Zero, b)) => FAdd(r, ratio(b, a)) = One
        /\ b = Zero => r = Zero

-----------------------------------------------------------------------------
(* wav_to_bins *)

\* column column_no (from 0) of a 2-D array, as a 1-D array
Column(arr, column_no) == [j \in 1..Rows(arr) |-> arr[j][column_no + 1]]

\* the average with bin_end included (a variant of line 29)
get_bin_average_inclusive(column_no, bin_start, bin_end, Zxx) ==
    Average(Slice(Column(Zxx, column_no), bin_start, bin_end + 1))

\* get_bin_average: np.average(Zxx[bin_start:bin_end, column_no])
get_bin_average(column_no, bin_start, bin_end, Zxx) ==
    Average(Slice(Column(Zxx, column_no), bin_start, bin_end))

\* lines 44-45: one all-zero frame appended
AppendZeroFrame(Zxx) == [j \in 1..Rows(Zxx) |-> Append(Zxx[j], Zero)]

\* line 46: np.flip(Zxx, axis=0)
Flip(Zxx) == [j \in 1..Rows(Zxx) |-> Zxx[Rows(Zxx) + 1 - j]]

\* lines 48-52: one row per pair of consecutive boundaries
BinAll(Zxx, bb) ==
    [j \in 1..(Len(bb) - 1) |-> [k \in 1..Cols(Zxx) |->
        FAbs(get_bin_average(k - 1, bb[j], bb[j + 1], Zxx))]]

\* lines 42-54 (channel 0) and 57-69 (channel 1), from the channel's STFT
BinChannel(stft, bb) == normalization_and_zooming(BinAll(Flip(AppendZeroFrame(stft)), bb))

\* wav_to_bins; file is what scipy.io.wavfile.read and scipy.signal.stft give:
\* the channel count and each channel's spectrogram.  A one-channel file is
\* read as a 1-D array, and data[:, 0] raises IndexError.
wav_to_bins(file, isMono, bb) ==
    IF file.channels = 1 THEN [error |-> "IndexError", kind |-> "none", val |-> <<>>]
    ELSE IF isMono = 0
         THEN [error |-> "none", kind |-> "tuple",
               val |-> <<BinChannel(file.Zxx[1], bb), BinChannel(file.Zxx[2], bb)>>]
         ELSE [error |-> "none", kind |-> "array", val |-> BinChannel(file.Zxx[1], bb)]

-----------------------------------------------------------------------------
(* wav_to_bins applied to small files and boundary lists *)

NumFreq == 3
MaxBoundaries == 3

StftFrameCounts == {1}

StftValues == {<<-1, 1>>, <<2, 1>>}

Spectrograms == UNION {Arrays(NumFreq, t, StftValues) : t \in StftFrameCounts}

WavFiles == {[channels |-> 1, Zxx |-> <<z>>] : z \in Spectrograms} \cup
            {[channels |-> 2, Zxx |-> <<z0, z1>>] : z0 \in Spectrograms, z1 \in Spectrograms}

\* ordered boundary lists; the last may lie one past the spectrogram
BoundaryLists ==
    UNION {{bb \in [1..n -> 0..(NumFreq + 1)] : \A k \in 1..(n - 1) : bb[k] <= bb[k + 1]} :
           n \in 2..MaxBoundaries}

InitBins ==
    /\ pc = "wav_to_bins"
    /\ error = "none"
    /\ wav \in WavFiles
    /\ mono \in {0, 1}
    /\ bin_boundaries \in BoundaryLists
    /\ ret = <<>>
    /\ g_bins0 = Undefined
    /\ IdleNorm /\ IdleFind /\ IdleRatio /\ IdleCircle /\ IdleMain

\* the call ends: its value is bound, or its exception propagates
WavReturns(res) ==
    /\ error' = res.error
    /\ ret' = [kind |-> res.kind, val |-> res.val]
    /\ pc' = IF res.error = "none" THEN "done" ELSE "raised"

CallWavToBins ==
    /\ pc = "wav_to_bins"
    /\ WavReturns(wav_to_bins(wav, mono, bin_boundaries))
    /\ UNCHANGED <<wav, mono, bin_boundaries, g_bins0, normVars, findVars, ratioVars,
                   circleVars, mainVars>>

SpecBins == InitBins /\ [][CallWavToBins]_vars

\* the arrays wav_to_bins returned, in channel order
Returned == IF ret.kind = "tuple" THEN ret.val ELSE <<ret.val>>

\* frequency row f (from 0, highest frequency first) of channel c at frame t
\* (from 0): the STFT's row NumFreq - 1 - f, and zero in the appended frame
Flipped(c, f, t) ==
    IF t = Len(wav.Zxx[c][1]) THEN Zero ELSE wav.Zxx[c][NumFreq - f][t + 1]

RECURSIVE SumOver(_, _, _)
SumOver(c, fs, t) ==
    IF fs = {} THEN Zero
    ELSE LET f == CHOOSE x \in fs : TRUE
         IN  FAdd(Flipped(c, f, t), SumOver(c, fs \ {f}, t))

\* |mean| of channel c's rows lo <= f < hi at frame t (NaN for no row)
BandMagnitude(c, lo, hi, t) ==
    LET fs == {f \in 0..(NumFreq - 1) : lo <= f /\ f < hi}
    IN  IF fs = {} THEN NaN
        ELSE FAbs(FDiv(SumOver(c, fs, t), <<Cardinality(fs), 1>>))

Expected(c) ==
    [j \in 1..(Len(bin_boundaries) - 1) |-> [k \in 1..(Len(wav.Zxx[c][1]) + 1) |->
        BandMagnitude(c, bin_boundaries[j], bin_boundaries[j + 1], k - 1)]]

\* C7: for a boundary list of length N >= 2 every returned bins array has
\* exactly N - 1 band rows, band i being computed (then normalized) from the
\* rows bin_boundaries[i] <= f < bin_boundaries[i+1] of the flipped spectrogram;
\* in stereo mode it returns two such arrays.
C7_BandRows ==
    pc = "done" =>
        /\ Len(Returned) = IF mono = 0 THEN 2 ELSE 1
        /\ \A c \in 1..Len(Returned) :
              /\ Rows(Returned[c]) = Len(bin_boundaries) - 1
              /\ Returned[c] = normalization_and_zooming(Expected(c))

\* a stereo call that returned two arrays of two bands, the first band two
\* rows wide, with a defined value in each
C7_Witness ==
    /\ pc = "done" /\ mono = 0
    /\ bin_boundaries = <<0, 2, 3>>
    /\ Rows(ret.val[1]) = 2 /\ Rows(ret.val[2]) = 2
    /\ \A x \in Flat(ret.val[1]) : ~IsNaN(x)
    /\ ret.val[1] # ret.val[2]

-----------------------------------------------------------------------------
(* circle_mode *)

\* line 170: find_points(27 / 30, 7)
EmphasisThreshold == <<9, 10>>
EmphasisHorizon == 7

\* line 172
White == <<One, One, One>>

\* line 173
colors == <<"magenta", "yellow", "cyan", "red", "green", "blue">>

\* line 180
Decay(col) == <<FMul(col[1], <<9, 10>>), FMul(col[2], <<9, 10>>), FMul(col[3], <<9, 10>>)>>

\* the background decaying whether or not colour changing is enabled (a variant
\* of lines 176-180)
NextColorAlwaysDecays(cc, pts, idx, col, rc) ==
    IF cc = 1 /\ \E k \in 1..Len(pts) : pts[k] = idx THEN rc ELSE Decay(col)

\* lines 176-180: the background of frame idx, rc being the triple that
\* random.random() would draw
NextColor(cc, pts, idx, col, rc) ==
    IF cc = 1
    THEN IF \E k \in 1..Len(pts) : pts[k] = idx THEN rc ELSE Decay(col)
    ELSE col

\* lines 183-186: mono rings, centred
MonoCircles(b0, idx) ==
    [j \in 1..Rows(b0) |->
        [x |-> <<1, 2>>, radius |-> FDiv(b0[j][idx + 1], <<2, 1>>),
         color |-> colors[((j - 1) % Len(colors)) + 1]]]

\* lines 188-190: stereo rings, placed by the balance of the two channels
StereoCircles(b0, b1, idx) ==
    [j \in 1..Rows(b0) |->
        [x |-> ratio(b0[j][idx + 1], b1[j][idx + 1]),
         radius |-> FDiv(FAdd(b0[j][idx + 1], b1[j][idx + 1]), <<4, 1>>),
         color |-> colors[((j - 1) % Len(colors)) + 1]]]

\* bins1[j, i] of lines 189 is out of range
Bins1OutOfRange(b0, b1, idx) == idx >= Cols(b1) \/ Rows(b0) > Rows(b1)

\* the triples random.random() is let to draw
RandomColors == {<<Zero, <<1, 2>>, <<1, 4>>>>, <<<<3, 4>>, Zero, <<1, 2>>>>}

\* lines 169-170 end: points is bound, or the exception of find_points propagates
EmphasisReturns(res) ==
    /\ error' = res.error
    /\ points' = res.keep
    /\ pc' = IF res.error = "none" THEN "circle_frame" ELSE "raised"

\* lines 160-173
CircleEnter ==
    /\ pc = "circle_mode"
    /\ IF color_changing = 1
       THEN EmphasisReturns(find_points(EmphasisThreshold, EmphasisHorizon, g_bins0))
       ELSE /\ pc' = "circle_frame"
            /\ UNCHANGED <<error, points>>
    /\ color' = IF pc' = "raised" THEN color ELSE White
    /\ UNCHANGED <<i, frames, c_bins0, c_bins1, color_changing, saved, g_bins0, normVars, findVars,
                   ratioVars, wavVars, mainVars>>

\* lines 175-198, one pass of the frame loop
CircleFrame ==
    /\ pc = "circle_frame"
    /\ i < Cols(c_bins0)
    /\ \E rc \in RandomColors : color' = NextColor(color_changing, points, i, color, rc)
    /\ IF c_bins1 = None
       THEN /\ frames' = Append(frames, [color |-> color', circles |-> MonoCircles(c_bins0, i)])
            /\ i' = i + 1
            /\ UNCHANGED <<pc, error>>
       ELSE IF Bins1OutOfRange(c_bins0, c_bins1, i)
            THEN /\ error' = "IndexError"
                 /\ pc' = "raised"
                 /\ UNCHANGED <<frames, i>>
            ELSE /\ frames' = Append(frames, [color |-> color',
                                              circles |-> StereoCircles(c_bins0, c_bins1, i)])
                 /\ i' = i + 1
                 /\ UNCHANGED <<pc, error>>
    /\ UNCHANGED <<c_bins0, c_bins1, color_changing, points, saved, g_bins0, normVars,
                   findVars, ratioVars, wavVars, mainVars>>

\* lines 200-202: the snapped frames are written out and circle_mode returns
CircleSave ==
    /\ pc = "circle_frame"
    /\ i = Cols(c_bins0)
    /\ saved' = Len(frames)
    /\ pc' = IF argv = <<>> THEN "done" ELSE "add_audio"
    /\ UNCHANGED <<error, c_bins0, c_bins1, color_changing, points, color, i, frames,
                   g_bins0, normVars, findVars, ratioVars, wavVars, mainVars>>

-----------------------------------------------------------------------------
(* circle_mode called on small arrays, under any binding of the global bins0 *)

MaxCircleFrames == 2

CircleArrays == UNION {Arrays(1, cols, {Zero, One}) : cols \in 1..MaxCircleFrames}

InitCircle ==
    /\ pc = "circle_mode"
    /\ error = "none"
    /\ c_bins0 \in CircleArrays
    /\ c_bins1 \in {None} \cup CircleArrays
    /\ color_changing \in {0, 1}
    /\ g_bins0 \in {Undefined} \cup CircleArrays
    /\ points = <<>> /\ color = <<>> /\ i = 0 /\ frames = <<>> /\ saved = 0
    /\ IdleNorm /\ IdleFind /\ IdleRatio /\ IdleWav /\ IdleMain

NextCircle == CircleEnter \/ CircleFrame \/ CircleSave

SpecCircle == InitCircle /\ [][NextCircle]_vars

\* C5: a stereo call whose two arrays differ in frame count (and whose emphasis
\* detection, if any, returned) fails with ValueError before any frame is
\* rendered.
C5_MismatchRejected ==
    (/\ pc \in {"done", "raised"}
     /\ error \notin {"NameError", "ZeroDivisionError"}
     /\ c_bins1 # None
     /\ Cols(c_bins0) # Cols(c_bins1))
        => (pc = "raised" /\ error = "ValueError" /\ frames = <<>>)

\* one frame was rendered: the loop index advanced
FrameRendered == pc = "circle_frame" /\ pc' = "circle_frame" /\ i' = i + 1

Flagged == color_changing = 1 /\ InSeq(i, points)

\* C8 as stated: the first background is computed from (1, 1, 1), and every
\* frame's background is the previous one times 0.9 in each component, except
\* on a flagged frame with colour changing enabled, where it is a drawn triple;
\* with colour changing enabled and with it disabled.
C8_DecayEveryFrame ==
    /\ [](pc = "circle_frame" /\ i = 0 => color = White)
    /\ [][FrameRendered =>
            /\ frames'[i + 1].color = color'
            /\ IF Flagged THEN color' \in RandomColors ELSE color' = Decay(color)]_vars

\* C8 amended: the same with colour changing enabled; with colour changing
\* disabled the background is (1, 1, 1) on every frame.
C8_DecayWhenEnabled ==
    /\ [](pc = "circle_frame" /\ i = 0 => color = White)
    /\ [][FrameRendered =>
            /\ frames'[i + 1].color = color'
            /\ IF color_changing = 1
               THEN IF Flagged THEN color' \in RandomColors ELSE color' = Decay(color)
               ELSE color' = White]_vars

\* two frames rendered with colour changing disabled, both on white
C8_Witness ==
    /\ pc = "done" /\ color_changing = 0 /\ saved = 2
    /\ frames[1].color = White /\ frames[2].color = White

\* what the emphasis detector gave circle_mode: a list, or an exception
EmphasisOutcome ==
    IF pc = "raised" /\ error \in {"NameError", "ZeroDivisionError"}
    THEN [error |-> error, keep |-> <<>>]
    ELSE [error |-> "none", keep |-> points]

\* C10: with colour changing enabled, the emphasis points circle_mode uses are
\* those of the bins0 it was passed (its per-frame average, threshold 27/30,
\* horizon 7), whatever the module-level bins0 is bound to.
C10_PointsFromArgument ==
    (color_changing = 1 /\ pc # "circle_mode")
        => EmphasisOutcome = find_points(EmphasisThreshold, EmphasisHorizon, c_bins0)

-----------------------------------------------------------------------------
(* The entry point, lines 223-242 *)

\* line 240: bin_boundaries=[4, 37, 93, 371], three bands inside the
\* spectrogram, scaled to the model's NumFreq rows
MainBoundaries == <<0, 1, 2, 3>>

\* int() of a flag
IntOf(str) == IF str = "0" THEN 0 ELSE 1

\* lines 225-230
AssertionsPass(args) ==
    /\ Len(args) = 6 \/ Len(args) = 7
    /\ args[2].ext = ".wav"
    /\ args[3] \in {"0", "1"}
    /\ args[4].ext = ".mp4"
    /\ args[5].ext = ".mp4"
    /\ args[6] \in {"0", "1"}

\* lines 224-239
MainArgs ==
    /\ pc = "main"
    /\ IF AssertionsPass(argv)
       THEN /\ mono' = IntOf(argv[3])
            /\ color_changing' = IntOf(argv[6])
            /\ pc' = "line_240"
            /\ UNCHANGED error
       ELSE /\ error' = "AssertionError"
            /\ pc' = "raised"
            /\ UNCHANGED <<mono, color_changing>>
    /\ UNCHANGED <<wav, bin_boundaries, ret, g_bins0, g_bins1, argv, stages, c_bins0,
                   c_bins1, points, color, i, frames, saved, normVars, findVars, ratioVars>>

\* line 240, after wav_to_bins: its value is unpacked into the two module-level
\* names.  A tuple of two arrays unpacks; a single array of
\* len(bin_boundaries) - 1 = 3 rows does not (ValueError).
BinnerReturns(res) ==
    /\ ret' = [kind |-> res.kind, val |-> res.val]
    /\ IF res.error # "none"
       THEN /\ error' = res.error
            /\ pc' = "raised"
            /\ UNCHANGED <<g_bins0, g_bins1>>
       ELSE IF res.kind = "tuple"
            THEN /\ g_bins0' = res.val[1]
                 /\ g_bins1' = res.val[2]
                 /\ pc' = "line_241"
                 /\ UNCHANGED error
            ELSE /\ error' = "ValueError"
                 /\ pc' = "raised"
                 /\ UNCHANGED <<g_bins0, g_bins1>>

\* line 240
MainBinner ==
    /\ pc = "line_240"
    /\ stages' = Append(stages, "binner")
    /\ bin_boundaries' = MainBoundaries
    /\ BinnerReturns(wav_to_bins(wav, mono, MainBoundaries))
    /\ UNCHANGED <<wav, mono, argv, circleVars, normVars, findVars, ratioVars>>

\* line 241: the call of circle_mode
MainRender ==
    /\ pc = "line_241"
    /\ stages' = Append(stages, "renderer")
    /\ c_bins0' = g_bins0
    /\ c_bins1' = g_bins1
    /\ pc' = "circle_mode"
    /\ UNCHANGED <<error, color_changing, points, color, i, frames, saved, g_bins0, g_bins1,
                   argv, normVars, findVars, ratioVars, wavVars>>

\* line 242: add_audio (lines 206-221) muxes the audio onto the rendered video
MainMuxer ==
    /\ pc = "add_audio"
    /\ stages' = Append(stages, "muxer")
    /\ pc' = "done"
    /\ UNCHANGED <<error, g_bins0, g_bins1, argv, circleVars, normVars, findVars,
                   ratioVars, wavVars>>

-----------------------------------------------------------------------------
(* Runs of the program on small files and argument vectors *)

FileArgs == {[name |-> "song", ext |-> ".wav"], [name |-> "song", ext |-> ".mp3"]}
VideoArgs == {[name |-> "out", ext |-> ".mp4"], [name |-> "out", ext |-> ".avi"]}
Flags == {"0", "1", "2"}

ArgVectors ==
    {<<"audio_visualization.py", f, m, [name |-> "silent", ext |-> ".mp4"], o, c>> :
        f \in FileArgs, m \in Flags, o \in VideoArgs, c \in {"0", "1"}}
    \cup
    {<<"audio_visualization.py", f, m, [name |-> "silent", ext |-> ".mp4"], o, c, "3">> :
        f \in FileArgs, m \in Flags, o \in VideoArgs, c \in {"0", "1"}}

InitMain ==
    /\ pc = "main"
    /\ error = "none"
    /\ argv \in ArgVectors
    /\ wav \in WavFiles
    /\ stages = <<>>
    /\ mono = 0 /\ bin_boundaries = <<>> /\ ret = <<>>
    /\ g_bins0 = Undefined /\ g_bins1 = Undefined
    /\ IdleNorm /\ IdleFind /\ IdleRatio /\ IdleCircle

NextMain ==
    \/ MainArgs
    \/ MainBinner
    \/ MainRender
    \/ CircleEnter
    \/ CircleFrame
    \/ CircleSave
    \/ MainMuxer

SpecMain == InitMain /\ [][NextMain]_vars

\* the file has the channels the mono flag asks for
FileFits == argv[3] = "0" => wav.channels = 2

\* C9: for every argument vector that passes the entry assertions, the run
\* executes the binner, the renderer and the muxer in this order, each once,
\* and reaches the muxer; with mono = 1 too.
C9_AllStagesRun ==
    (pc \in {"done", "raised"} /\ AssertionsPass(argv) /\ FileFits)
        => (pc = "done" /\ stages = <<"binner", "renderer", "muxer">>)

=============================================================================
